---- MODULE Spec2Model ----
(***************************************************************************)
(* Library circulation rules engine: LibraryItem (and its Book, Journal,   *)
(* DVD, EBook variants), User, Loan, Hold and the LibrarySystem            *)
(* coordinator.  Dates are day numbers, timedelta(days=n) is + n, money is *)
(* kept in cents and daily rates in tenths of a cent.                      *)
(***************************************************************************)
EXTENDS Integers, Sequences, FiniteSets, TLC

VARIABLES users, items, loans, holds, issued, last

vars == <<users, items, loans, holds, issued, last>>

(* ------------------------------ bounds --------------------------------- *)
NumDates == 2
DateStep == 15
MaxCopies == 1
MaxLoans == 2
MaxRenewalsArg == 1
MaxExpiry == 18
MaxFineDay == 19
MaxBalance == 75

Dates == {DateStep * k : k \in 0..(NumDates - 1)}
CopyCounts == 0..MaxCopies

(* ------------------------------ inputs --------------------------------- *)
UserIds == {"U1", "U2"}
ItemIds == {"I1", "I2"}
LoanIds == {"L1", "L2"}
HoldIds == {"H1", "H2"}
BlankIds == {"", " "}
Roles == {"Student", "Faculty", "Staff", "Admin", "Public"}
CircRoles == {"Student", "Faculty"}
Kinds == {"Generic", "Book", "Journal", "DVD", "EBook"}

(* None, for Optional[date] and for calls that return nothing *)
None == 0 - 1

(* str.strip() on the identifiers the model passes in *)
Strip(s) == IF s = " " THEN "" ELSE s

(* ------------------------ project_1_functions -------------------------- *)
validate_user_role(role) == role \in {"Student", "Faculty", "Staff", "Admin", "Public"}

(* calculate_due_date granting the short period to students only *)
calculate_due_date_student_only(start, role) ==
    LET days == IF role = "Student" THEN 14 ELSE 28
    IN  start + days

calculate_due_date(start, role) ==
    LET days == IF role \in {"Student", "Public"} THEN 14 ELSE 28
    IN  start + days

(* round(x, 2) of an amount given in tenths of a cent, result in cents;    *)
(* the rates used are dyadic, so the float product is exact and a tie is   *)
(* rounded to the even cent                                                *)
Round2(mills) ==
    LET q == mills \div 10
        r == mills % 10
    IN  IF r < 5 THEN q
        ELSE IF r > 5 THEN q + 1
        ELSE IF q % 2 = 0 THEN q ELSE q + 1

(* compute_overdue_fine counting the due day itself as a day late *)
compute_overdue_fine_inclusive(due_date, return_date, daily_rate) ==
    IF return_date < due_date THEN 0
    ELSE LET days_late == return_date - due_date + 1
         IN  Round2(days_late * daily_rate)

compute_overdue_fine(due_date, return_date, daily_rate) ==
    IF return_date <= due_date THEN 0
    ELSE LET days_late == return_date - due_date
         IN  Round2(days_late * daily_rate)

(* ----------------------------- LibraryItem ----------------------------- *)
LibraryItem(kind, available_copies) ==
    [kind |-> kind, available |-> available_copies, total |-> available_copies]

is_available(it) == it.available > 0

(* the due-date policy with the DVD period depending on the role, as the  *)
(* Journal period does                                                     *)
Item_calculate_due_date_dvd_by_role(it, checkout_date, user_role) ==
    CASE it.kind = "Journal" ->
            checkout_date + (IF user_role \in {"Student", "Public"} THEN 7 ELSE 14)
      [] it.kind = "DVD" ->
            checkout_date + (IF user_role \in {"Student", "Public"} THEN 7 ELSE 14)
      [] it.kind = "EBook" -> checkout_date
      [] OTHER -> calculate_due_date(checkout_date, user_role)

Item_calculate_due_date(it, checkout_date, user_role) ==
    CASE it.kind = "Journal" ->
            checkout_date + (IF user_role \in {"Student", "Public"} THEN 7 ELSE 14)
      [] it.kind = "DVD" -> checkout_date + 7
      [] it.kind = "EBook" -> checkout_date
      [] OTHER -> calculate_due_date(checkout_date, user_role)

(* each method yields the error it raises ("" for none) and the object as  *)
(* the call leaves it                                                      *)
checkout_copy(it) ==
    IF it.kind = "EBook" THEN [err |-> "", item |-> it]
    ELSE IF it.available <= 0 THEN [err |-> "RuntimeError", item |-> it]
    ELSE [err |-> "", item |-> [it EXCEPT !.available = @ - 1]]

(* return_copy without the over-return check *)
return_copy_unchecked(it) ==
    [err |-> "", item |-> [it EXCEPT !.available = @ + 1]]

return_copy(it) ==
    IF it.available >= it.total THEN [err |-> "RuntimeError", item |-> it]
    ELSE [err |-> "", item |-> [it EXCEPT !.available = @ + 1]]

(* -------------------------------- User --------------------------------- *)
User(role) == [role |-> role, active_loan_ids |-> <<>>, total_fines |-> 0]

InSeq(x, s) == \E k \in 1..Len(s) : s[k] = x

RECURSIVE RemoveFirst(_, _)
RemoveFirst(s, x) ==
    IF s = <<>> THEN <<>>
    ELSE IF Head(s) = x THEN Tail(s)
    ELSE <<Head(s)>> \o RemoveFirst(Tail(s), x)

add_loan(u, loan_id) ==
    IF InSeq(loan_id, u.active_loan_ids) THEN u
    ELSE [u EXCEPT !.active_loan_ids = Append(@, loan_id)]

remove_loan(u, loan_id) ==
    IF ~InSeq(loan_id, u.active_loan_ids) THEN [err |-> "ValueError", user |-> u]
    ELSE [err |-> "", user |-> [u EXCEPT !.active_loan_ids = RemoveFirst(@, loan_id)]]

add_fine(u, amount) ==
    IF amount < 0 THEN [err |-> "ValueError", user |-> u]
    ELSE [err |-> "", user |-> [u EXCEPT !.total_fines = @ + amount]]

(* pay_fine without the clamp at zero *)
pay_fine_unclamped(u, amount) ==
    IF amount < 0 THEN [err |-> "ValueError", user |-> u, ret |-> None]
    ELSE [err |-> "", user |-> [u EXCEPT !.total_fines = @ - amount],
          ret |-> u.total_fines - amount]

pay_fine(u, amount) ==
    IF amount < 0 THEN [err |-> "ValueError", user |-> u, ret |-> None]
    ELSE LET rest == IF u.total_fines - amount > 0 THEN u.total_fines - amount ELSE 0
         IN  [err |-> "", user |-> [u EXCEPT !.total_fines = rest], ret |-> rest]

(* -------------------------------- Hold --------------------------------- *)
(* the constructor without the test of the expiry date *)
Hold_any_dates(hold_id, user_id, item_id, placed_on, expires_on, notified) ==
    IF Strip(hold_id) = "" \/ Strip(user_id) = "" \/ Strip(item_id) = ""
    THEN [err |-> "ValueError"]
    ELSE [err |-> "",
          hold |-> [hold_id |-> Strip(hold_id), user_id |-> Strip(user_id),
                    item_id |-> Strip(item_id), placed_on |-> placed_on,
                    expires_on |-> expires_on, notified |-> notified,
                    fulfilled |-> FALSE, cancelled |-> FALSE]]

Hold(hold_id, user_id, item_id, placed_on, expires_on, notified) ==
    IF Strip(hold_id) = "" \/ Strip(user_id) = "" \/ Strip(item_id) = ""
          \/ expires_on < placed_on
    THEN [err |-> "ValueError"]
    ELSE [err |-> "",
          hold |-> [hold_id |-> Strip(hold_id), user_id |-> Strip(user_id),
                    item_id |-> Strip(item_id), placed_on |-> placed_on,
                    expires_on |-> expires_on, notified |-> notified,
                    fulfilled |-> FALSE, cancelled |-> FALSE]]

(* is_active looking at the expiry date only *)
Hold_is_active_by_date(h, today) == today <= h.expires_on

Hold_is_active(h, today) == ~h.fulfilled /\ ~h.cancelled /\ today <= h.expires_on

(* is_expired counting the expiry day itself as expired *)
Hold_is_expired_inclusive(h, today) == ~h.fulfilled /\ today >= h.expires_on

Hold_is_expired(h, today) == ~h.fulfilled /\ today > h.expires_on

(* notify refusing a fulfilled hold only *)
notify_unless_fulfilled(h) ==
    IF h.fulfilled THEN [err |-> "RuntimeError", hold |-> h]
    ELSE [err |-> "", hold |-> [h EXCEPT !.notified = TRUE]]

notify(h) ==
    IF h.fulfilled \/ h.cancelled THEN [err |-> "RuntimeError", hold |-> h]
    ELSE [err |-> "", hold |-> [h EXCEPT !.notified = TRUE]]

fulfill(h) ==
    IF h.cancelled THEN [err |-> "RuntimeError", hold |-> h]
    ELSE [err |-> "", hold |-> [h EXCEPT !.fulfilled = TRUE]]

(* cancel without the check that the hold is not fulfilled *)
cancel_unchecked(h) ==
    [err |-> "", hold |-> [h EXCEPT !.cancelled = TRUE]]

cancel(h) ==
    IF h.fulfilled THEN [err |-> "RuntimeError", hold |-> h]
    ELSE [err |-> "", hold |-> [h EXCEPT !.cancelled = TRUE]]

(* extend testing the number of days before the state of the hold *)
extend_days_first(h, additional_days, today) ==
    IF additional_days < 1
    THEN [err |-> "ValueError", hold |-> h, ret |-> None]
    ELSE IF ~Hold_is_active(h, today)
    THEN [err |-> "RuntimeError", hold |-> h, ret |-> None]
    ELSE [err |-> "",
          hold |-> [h EXCEPT !.expires_on = @ + additional_days],
          ret |-> h.expires_on + additional_days]

extend(h, additional_days, today) ==
    IF ~Hold_is_active(h, today)
    THEN [err |-> "RuntimeError", hold |-> h, ret |-> None]
    ELSE IF additional_days < 1
    THEN [err |-> "ValueError", hold |-> h, ret |-> None]
    ELSE [err |-> "",
          hold |-> [h EXCEPT !.expires_on = @ + additional_days],
          ret |-> h.expires_on + additional_days]

(* -------------------------------- Loan --------------------------------- *)
Loan(loan_id, user_id, item_id, due, returned_on, renewals) ==
    IF Strip(loan_id) = "" \/ Strip(user_id) = "" \/ Strip(item_id) = ""
          \/ renewals < 0
    THEN [err |-> "ValueError"]
    ELSE [err |-> "",
          loan |-> [loan_id |-> Strip(loan_id), user_id |-> Strip(user_id),
                    item_id |-> Strip(item_id), due |-> due,
                    returned_on |-> returned_on, renewals |-> renewals]]

Loan_is_active(l) == l.returned_on = None

is_overdue(l, today) == Loan_is_active(l) /\ today > l.due

(* calculate_fine stopping at four dollars *)
calculate_fine_capped(l, return_date, daily_rate) ==
    LET fine == compute_overdue_fine(l.due, return_date, daily_rate)
    IN  IF fine > 400 THEN 400 ELSE fine

calculate_fine(l, return_date, daily_rate) ==
    compute_overdue_fine(l.due, return_date, daily_rate)

(* Loan.return_item without the check that the loan is still active *)
Loan_return_item_unchecked(l, it, return_date, daily_rate) ==
    LET closed == [l EXCEPT !.returned_on = return_date]
        rc == return_copy(it)
    IN  IF rc.err # ""
        THEN [err |-> rc.err, loan |-> closed, item |-> rc.item, fine |-> None]
        ELSE [err |-> "", loan |-> closed, item |-> rc.item,
              fine |-> calculate_fine(closed, return_date, daily_rate)]

(* Loan.return_item: the return date is recorded before the item is asked  *)
(* to take the copy back, so an item that refuses leaves the loan closed   *)
Loan_return_item(l, it, return_date, daily_rate) ==
    IF ~Loan_is_active(l)
    THEN [err |-> "RuntimeError", loan |-> l, item |-> it, fine |-> None]
    ELSE LET closed == [l EXCEPT !.returned_on = return_date]
             rc == return_copy(it)
         IN  IF rc.err # ""
             THEN [err |-> rc.err, loan |-> closed, item |-> rc.item, fine |-> None]
             ELSE [err |-> "", loan |-> closed, item |-> rc.item,
                   fine |-> calculate_fine(closed, return_date, daily_rate)]

(* Loan.renew: None (and no change) on a rejection, the new due date on    *)
(* success; user is the requesting User, item_id the id of the item passed *)
(* in, hs the holds passed in (a sequence; <<>> also stands for None)      *)
(* the hold test of renew with the expiry compared strictly *)
HoldBlocks_strict(h, user_id, item_id, today) ==
    /\ h.item_id = item_id
    /\ h.user_id # user_id
    /\ h.expires_on > today
    /\ ~h.cancelled

HoldBlocks(h, user_id, item_id, today) ==
    /\ h.item_id = item_id
    /\ h.user_id # user_id
    /\ h.expires_on >= today
    /\ ~h.cancelled

(* the test of the renewal count letting one renewal more through *)
MaxRenewalsReached_strict(l, max_renewals) == l.renewals > max_renewals

MaxRenewalsReached(l, max_renewals) == l.renewals >= max_renewals

(* renew without the borrower check *)
renew_any_user(l, user_id, role, item_id, today, hs, max_renewals, allow_overdue) ==
    IF ~Loan_is_active(l) THEN [ret |-> None, loan |-> l]
    ELSE IF MaxRenewalsReached(l, max_renewals) THEN [ret |-> None, loan |-> l]
    ELSE IF ~allow_overdue /\ today > l.due THEN [ret |-> None, loan |-> l]
    ELSE IF \E k \in 1..Len(hs) : HoldBlocks(hs[k], user_id, item_id, today)
         THEN [ret |-> None, loan |-> l]
    ELSE LET due == calculate_due_date(today, role)
         IN  [ret |-> due,
              loan |-> [l EXCEPT !.due = due, !.renewals = @ + 1]]

renew(l, user_id, role, item_id, today, hs, max_renewals, allow_overdue) ==
    IF ~Loan_is_active(l) THEN [ret |-> None, loan |-> l]
    ELSE IF l.user_id # user_id THEN [ret |-> None, loan |-> l]
    ELSE IF MaxRenewalsReached(l, max_renewals) THEN [ret |-> None, loan |-> l]
    ELSE IF ~allow_overdue /\ today > l.due THEN [ret |-> None, loan |-> l]
    ELSE IF \E k \in 1..Len(hs) : HoldBlocks(hs[k], user_id, item_id, today)
         THEN [ret |-> None, loan |-> l]
    ELSE LET due == calculate_due_date(today, role)
         IN  [ret |-> due,
              loan |-> [l EXCEPT !.due = due, !.renewals = @ + 1]]

(* ------------------------- the last call made -------------------------- *)
(* op: the method, err: the error it raised ("" for none), ret: what it    *)
(* returned, then the arguments it was given; pre: what a successful       *)
(* checkout_item found before it acted (the item's available copies, the   *)
(* user's active loans and fine balance)                                   *)
NoCall ==
    [op |-> "none", err |-> "", ret |-> None, id |-> "", user |-> "",
     role |-> "", item |-> "", date |-> None, hs |-> {}, max |-> 0,
     allow |-> FALSE, rate |-> 0, days |-> 0, active |-> FALSE,
     expired |-> FALSE, amount |-> 0, until |-> None, out |-> <<>>,
     pre |-> <<>>]

(* --------------------------- LibrarySystem ----------------------------- *)
(* users: LibrarySystem._users, items: Catalog._items, loans:              *)
(* LibrarySystem._loans, holds: LibrarySystem._holds in insertion order,   *)
(* issued: the number of Loan objects constructed so far                   *)
Init ==
    /\ users = <<>>
    /\ items = <<>>
    /\ loans = <<>>
    /\ holds = <<>>
    /\ issued = 0
    /\ last = NoCall

Put(f, k, v) == [x \in (DOMAIN f) \cup {k} |-> IF x = k THEN v ELSE f[x]]

(* User(user_id, name, role) followed by LibrarySystem.add_user *)
add_user(user_id, role) ==
    LET call == [NoCall EXCEPT !.op = "add_user", !.user = user_id, !.role = role]
    IN  IF Strip(user_id) = "" \/ ~validate_user_role(role)
        THEN /\ last' = [call EXCEPT !.err = "ValueError"]
             /\ UNCHANGED <<users, items, loans, holds, issued>>
        ELSE IF Strip(user_id) \in DOMAIN users
        THEN /\ last' = [call EXCEPT !.err = "ValueError"]
             /\ UNCHANGED <<users, items, loans, holds, issued>>
        ELSE /\ users' = Put(users, Strip(user_id), User(role))
             /\ last' = call
             /\ UNCHANGED <<items, loans, holds, issued>>

(* LibraryItem(item_id, ..., available_copies) of the given variant        *)
(* followed by LibrarySystem.add_item, which is Catalog.add_item           *)
add_item(item_id, kind, available_copies) ==
    LET call == [NoCall EXCEPT !.op = "add_item", !.item = item_id]
    IN  IF Strip(item_id) = "" \/ available_copies < 0
        THEN /\ last' = [call EXCEPT !.err = "ValueError"]
             /\ UNCHANGED <<users, items, loans, holds, issued>>
        ELSE IF Strip(item_id) \in DOMAIN items
        THEN /\ last' = [call EXCEPT !.err = "ValueError"]
             /\ UNCHANGED <<users, items, loans, holds, issued>>
        ELSE /\ items' = Put(items, Strip(item_id), LibraryItem(kind, available_copies))
             /\ last' = call
             /\ UNCHANGED <<users, loans, holds, issued>>

checkout_item(loan_id, user_id, item_id, checkout_date) ==
    LET call == [NoCall EXCEPT !.op = "checkout_item", !.id = loan_id,
                               !.user = user_id, !.item = item_id,
                               !.date = checkout_date]
    IN  IF user_id \notin DOMAIN users
        THEN /\ last' = [call EXCEPT !.err = "KeyError"]
             /\ UNCHANGED <<users, items, loans, holds, issued>>
        ELSE IF item_id \notin DOMAIN items
        THEN /\ last' = [call EXCEPT !.err = "KeyError"]
             /\ UNCHANGED <<users, items, loans, holds, issued>>
        ELSE IF ~is_available(items[item_id])
        THEN /\ last' = [call EXCEPT !.err = "RuntimeError"]
             /\ UNCHANGED <<users, items, loans, holds, issued>>
        ELSE LET due == Item_calculate_due_date(items[item_id], checkout_date,
                                                users[user_id].role)
                 co == checkout_copy(items[item_id])
                 ln == Loan(loan_id, user_id, item_id, due, None, 0)
             IN  IF co.err # ""
                 THEN /\ last' = [call EXCEPT !.err = co.err]
                      /\ UNCHANGED <<users, items, loans, holds, issued>>
                 ELSE IF ln.err # ""
                 THEN /\ items' = [items EXCEPT ![item_id] = co.item]
                      /\ last' = [call EXCEPT !.err = ln.err]
                      /\ UNCHANGED <<users, loans, holds, issued>>
                 ELSE /\ issued < MaxLoans
                      /\ issued' = issued + 1
                      /\ items' = [items EXCEPT ![item_id] = co.item]
                      /\ loans' = Put(loans, loan_id, ln.loan)
                      /\ users' = [users EXCEPT ![user_id] = add_loan(@, loan_id)]
                      /\ last' = [call EXCEPT !.ret = due,
                                   !.pre = <<items[item_id].available,
                                             users[user_id].active_loan_ids,
                                             users[user_id].total_fines>>]
                      /\ UNCHANGED holds

LibrarySystem_return_item(loan_id, return_date, daily_rate) ==
    LET call == [NoCall EXCEPT !.op = "return_item", !.id = loan_id,
                               !.date = return_date, !.rate = daily_rate]
    IN  IF loan_id \notin DOMAIN loans
        THEN /\ last' = [call EXCEPT !.err = "KeyError"]
             /\ UNCHANGED <<users, items, loans, holds, issued>>
        ELSE LET loan == loans[loan_id]
             IN  IF loan.item_id \notin DOMAIN items
                 THEN /\ last' = [call EXCEPT !.err = "KeyError"]
                      /\ UNCHANGED <<users, items, loans, holds, issued>>
                 ELSE LET r == Loan_return_item(loan, items[loan.item_id],
                                                return_date, daily_rate)
                          rl == remove_loan(users[loan.user_id], loan_id)
                          af == add_fine(rl.user, r.fine)
                      IN  /\ loans' = [loans EXCEPT ![loan_id] = r.loan]
                          /\ items' = [items EXCEPT ![loan.item_id] = r.item]
                          /\ UNCHANGED <<holds, issued>>
                          /\ IF r.err # ""
                             THEN /\ last' = [call EXCEPT !.err = r.err]
                                  /\ UNCHANGED users
                             ELSE IF rl.err # ""
                             THEN /\ last' = [call EXCEPT !.err = rl.err]
                                  /\ UNCHANGED users
                             ELSE /\ users' = [users EXCEPT ![loan.user_id] =
                                                 IF r.fine > 0 THEN af.user ELSE rl.user]
                                  /\ last' = [call EXCEPT !.ret = r.fine]

place_hold(hold_id, user_id, item_id, placed_on, expires_on) ==
    LET call == [NoCall EXCEPT !.op = "place_hold", !.id = hold_id,
                               !.user = user_id, !.item = item_id,
                               !.date = placed_on, !.until = expires_on]
        h == Hold(hold_id, user_id, item_id, placed_on, expires_on, FALSE)
    IN  IF \E k \in 1..Len(holds) : holds[k].key = hold_id
        THEN /\ last' = [call EXCEPT !.err = "ValueError"]
             /\ UNCHANGED <<users, items, loans, holds, issued>>
        ELSE IF h.err # ""
        THEN /\ last' = [call EXCEPT !.err = h.err]
             /\ UNCHANGED <<users, items, loans, holds, issued>>
        ELSE /\ holds' = Append(holds, [key |-> hold_id, hold |-> h.hold])
             /\ last' = call
             /\ UNCHANGED <<users, items, loans, issued>>

(* every hold of the item, active or not *)
get_holds_for_item(hs, item_id, today) ==
    LET F[k \in 0..Len(hs)] ==
            IF k = 0 THEN <<>>
            ELSE IF hs[k].hold.item_id = item_id
                 THEN Append(F[k - 1], hs[k].key)
                 ELSE F[k - 1]
    IN  F[Len(hs)]

(* the list comprehension over self._holds.values(), which a dict yields   *)
(* in insertion order; the holds returned are named by their keys          *)
get_active_holds_for_item(hs, item_id, today) ==
    LET F[k \in 0..Len(hs)] ==
            IF k = 0 THEN <<>>
            ELSE IF hs[k].hold.item_id = item_id /\ Hold_is_active(hs[k].hold, today)
                 THEN Append(F[k - 1], hs[k].key)
                 ELSE F[k - 1]
    IN  F[Len(hs)]

LibrarySystem_get_active_holds_for_item(item_id, today) ==
    /\ last' = [NoCall EXCEPT !.op = "get_active_holds_for_item",
                              !.item = item_id, !.date = today,
                              !.out = get_active_holds_for_item(holds, item_id, today)]
    /\ UNCHANGED <<users, items, loans, holds, issued>>

(* ------------------- methods called on the objects --------------------- *)
(* Loan(loan_id, user_id, item_id, due, returned_on) built by the caller,  *)
(* as demo.py does; the model names the object by its loan id, so it       *)
(* builds one object per id                                                *)
new_loan(loan_id, user_id, item_id, due, returned_on) ==
    LET call == [NoCall EXCEPT !.op = "Loan", !.id = loan_id, !.user = user_id,
                               !.item = item_id, !.date = due]
        ln == Loan(loan_id, user_id, item_id, due, returned_on, 0)
    IN  /\ loan_id \notin DOMAIN loans
        /\ IF ln.err # ""
           THEN /\ last' = [call EXCEPT !.err = ln.err]
                /\ UNCHANGED <<users, items, loans, holds, issued>>
           ELSE /\ loans' = Put(loans, loan_id, ln.loan)
                /\ last' = call
                /\ UNCHANGED <<users, items, holds, issued>>

(* the holds a caller passes to renew: the stored holds picked by sel, in  *)
(* the order they were placed                                              *)
HoldsArg(sel) ==
    LET F[k \in 0..Len(holds)] ==
            IF k = 0 THEN <<>>
            ELSE IF k \in sel THEN Append(F[k - 1], holds[k].hold)
            ELSE F[k - 1]
    IN  F[Len(holds)]

(* Loan.renew that also marks the holds it was given as notified *)
Loan_renew_notifying(loan_id, user_id, role, today, sel, max_renewals, allow_overdue) ==
    LET l == loans[loan_id]
        r == renew(l, user_id, role, l.item_id, today, HoldsArg(sel),
                   max_renewals, allow_overdue)
    IN  /\ loans' = [loans EXCEPT ![loan_id] = r.loan]
        /\ holds' = [k \in 1..Len(holds) |->
                        IF k \in sel THEN [holds[k] EXCEPT !.hold.notified = TRUE]
                        ELSE holds[k]]
        /\ last' = [NoCall EXCEPT !.op = "renew", !.id = loan_id,
                                  !.user = user_id, !.role = role,
                                  !.item = l.item_id, !.date = today,
                                  !.hs = sel, !.max = max_renewals,
                                  !.allow = allow_overdue, !.ret = r.ret]
        /\ UNCHANGED <<users, items, issued>>

(* Loan.renew on the loan named loan_id, requested by User(user_id, _,     *)
(* role), for the item being renewed (the loan's item) and the holds sel   *)
Loan_renew(loan_id, user_id, role, today, sel, max_renewals, allow_overdue) ==
    LET l == loans[loan_id]
        r == renew(l, user_id, role, l.item_id, today, HoldsArg(sel),
                   max_renewals, allow_overdue)
    IN  /\ loans' = [loans EXCEPT ![loan_id] = r.loan]
        /\ last' = [NoCall EXCEPT !.op = "renew", !.id = loan_id,
                                  !.user = user_id, !.role = role,
                                  !.item = l.item_id, !.date = today,
                                  !.hs = sel, !.max = max_renewals,
                                  !.allow = allow_overdue, !.ret = r.ret]
        /\ UNCHANGED <<users, items, holds, issued>>

(* Loan.renew asked for by a borrower taken to be a student *)
Borrower_renew_as_student(loan_id, today, max_renewals, allow_overdue) ==
    Loan_renew(loan_id, loans[loan_id].user_id, "Student", today,
               1..Len(holds), max_renewals, allow_overdue)

(* Loan.renew asked for by the loan's borrower: the stored user whose id   *)
(* the loan carries, with every stored hold passed in                      *)
Borrower_renew(loan_id, today, max_renewals, allow_overdue) ==
    Loan_renew(loan_id, loans[loan_id].user_id, users[loans[loan_id].user_id].role,
               today, 1..Len(holds), max_renewals, allow_overdue)

(* Loan.return_item called on the loan named loan_id with the item of the  *)
(* loan's item id                                                          *)
Loan_return(loan_id, return_date, daily_rate) ==
    LET l == loans[loan_id]
        r == Loan_return_item(l, items[l.item_id], return_date, daily_rate)
    IN  /\ l.item_id \in DOMAIN items
        /\ loans' = [loans EXCEPT ![loan_id] = r.loan]
        /\ items' = [items EXCEPT ![l.item_id] = r.item]
        /\ last' = [NoCall EXCEPT !.op = "Loan.return_item", !.id = loan_id,
                                  !.item = l.item_id, !.date = return_date,
                                  !.rate = daily_rate, !.err = r.err,
                                  !.ret = r.fine]
        /\ UNCHANGED <<users, holds, issued>>

(* Loan.calculate_fine asked of the loan named loan_id *)
Loan_calculate_fine(loan_id, return_date, daily_rate) ==
    /\ last' = [NoCall EXCEPT !.op = "calculate_fine", !.id = loan_id,
                              !.date = return_date, !.rate = daily_rate,
                              !.ret = calculate_fine(loans[loan_id], return_date,
                                                     daily_rate)]
    /\ UNCHANGED <<users, items, loans, holds, issued>>

(* User.add_fine on a stored user; a successful call is taken while the    *)
(* balance stays within MaxBalance                                         *)
User_add_fine(user_id, amount) ==
    LET r == add_fine(users[user_id], amount)
    IN  /\ (r.err = "" => r.user.total_fines <= MaxBalance)
        /\ users' = [users EXCEPT ![user_id] = r.user]
        /\ last' = [NoCall EXCEPT !.op = "add_fine", !.user = user_id,
                                  !.amount = amount, !.err = r.err]
        /\ UNCHANGED <<items, loans, holds, issued>>

User_pay_fine(user_id, amount) ==
    LET r == pay_fine(users[user_id], amount)
    IN  /\ users' = [users EXCEPT ![user_id] = r.user]
        /\ last' = [NoCall EXCEPT !.op = "pay_fine", !.user = user_id,
                                  !.amount = amount, !.err = r.err,
                                  !.ret = r.ret]
        /\ UNCHANGED <<items, loans, holds, issued>>

Item_checkout_copy(item_id) ==
    LET r == checkout_copy(items[item_id])
    IN  /\ items' = [items EXCEPT ![item_id] = r.item]
        /\ last' = [NoCall EXCEPT !.op = "checkout_copy", !.item = item_id,
                                  !.err = r.err]
        /\ UNCHANGED <<users, loans, holds, issued>>

Item_return_copy(item_id) ==
    LET r == return_copy(items[item_id])
    IN  /\ items' = [items EXCEPT ![item_id] = r.item]
        /\ last' = [NoCall EXCEPT !.op = "return_copy", !.item = item_id,
                                  !.err = r.err]
        /\ UNCHANGED <<users, loans, holds, issued>>

Hold_fulfill(k) ==
    LET r == fulfill(holds[k].hold)
    IN  /\ holds' = [holds EXCEPT ![k].hold = r.hold]
        /\ last' = [NoCall EXCEPT !.op = "fulfill", !.id = holds[k].key,
                                  !.err = r.err]
        /\ UNCHANGED <<users, items, loans, issued>>

Hold_cancel(k) ==
    LET r == cancel(holds[k].hold)
    IN  /\ holds' = [holds EXCEPT ![k].hold = r.hold]
        /\ last' = [NoCall EXCEPT !.op = "cancel", !.id = holds[k].key,
                                  !.err = r.err]
        /\ UNCHANGED <<users, items, loans, issued>>

(* item.calculate_due_date(checkout_date, user_role) asked of a catalogued *)
(* item                                                                    *)
Item_due_date(item_id, checkout_date, user_role) ==
    /\ last' = [NoCall EXCEPT !.op = "calculate_due_date", !.item = item_id,
                              !.date = checkout_date, !.role = user_role,
                              !.ret = Item_calculate_due_date(items[item_id],
                                          checkout_date, user_role)]
    /\ UNCHANGED <<users, items, loans, holds, issued>>

Hold_notify(k) ==
    LET r == notify(holds[k].hold)
    IN  /\ holds' = [holds EXCEPT ![k].hold = r.hold]
        /\ last' = [NoCall EXCEPT !.op = "notify", !.id = holds[k].key,
                                  !.err = r.err]
        /\ UNCHANGED <<users, items, loans, issued>>

(* Hold.extend; a successful call is taken while the new expiry date stays *)
(* within MaxExpiry                                                        *)
Hold_extend(k, additional_days, today) ==
    LET r == extend(holds[k].hold, additional_days, today)
    IN  /\ (r.err = "" => r.hold.expires_on <= MaxExpiry)
        /\ holds' = [holds EXCEPT ![k].hold = r.hold]
        /\ last' = [NoCall EXCEPT !.op = "extend", !.id = holds[k].key,
                                  !.days = additional_days, !.date = today,
                                  !.err = r.err, !.ret = r.ret]
        /\ UNCHANGED <<users, items, loans, issued>>

(* Hold.is_active(today) and Hold.is_expired(today) asked of one hold *)
Hold_status(k, today) ==
    /\ last' = [NoCall EXCEPT !.op = "status", !.id = holds[k].key,
                              !.date = today,
                              !.active = Hold_is_active(holds[k].hold, today),
                              !.expired = Hold_is_expired(holds[k].hold, today)]
    /\ UNCHANGED <<users, items, loans, holds, issued>>

(* Hold(hold_id, user_id, item_id, placed_on, expires_on, notified) built  *)
(* by the caller, as demo.py does; one object per hold id                  *)
new_hold(hold_id, user_id, item_id, placed_on, expires_on, notified) ==
    LET call == [NoCall EXCEPT !.op = "Hold", !.id = hold_id, !.user = user_id,
                               !.item = item_id, !.date = placed_on]
        h == Hold(hold_id, user_id, item_id, placed_on, expires_on, notified)
    IN  /\ \A k \in 1..Len(holds) : holds[k].key # hold_id
        /\ IF h.err # ""
           THEN /\ last' = [call EXCEPT !.err = h.err]
                /\ UNCHANGED <<users, items, loans, holds, issued>>
           ELSE /\ holds' = Append(holds, [key |-> hold_id, hold |-> h.hold])
                /\ last' = call
                /\ UNCHANGED <<users, items, loans, issued>>

(* ---------------------------- specifications --------------------------- *)
DailyRates == {250}
CircUsers == {<<"U1", "Student">>, <<"U2", "Faculty">>}

AddUser == \E p \in CircUsers : add_user(p[1], p[2])

AddItem == \E i \in {"I1"}, kind \in Kinds, n \in CopyCounts : add_item(i, kind, n)

CheckoutItem ==
    \E l \in LoanIds \cup BlankIds, u \in UserIds, i \in ItemIds, d \in {0} :
        checkout_item(l, u, i, d)

ReturnItem ==
    \E l \in LoanIds, d \in Dates, rate \in DailyRates :
        LibrarySystem_return_item(l, d, rate)

(* the coordinator's circulation methods *)
Next == AddUser \/ AddItem \/ CheckoutItem \/ ReturnItem

Spec == Init /\ [][Next]_vars

(* one user's checkouts and returns of the catalog item, together with    *)
(* LibraryItem.checkout_copy and LibraryItem.return_copy called on it      *)
ItemAddUser == add_user("U1", "Student")

ItemCheckout == \E l \in LoanIds : checkout_item(l, "U1", "I1", 0)

ItemCheckoutCopy == \E i \in DOMAIN items : Item_checkout_copy(i)

ItemReturnCopy == \E i \in DOMAIN items : Item_return_copy(i)

NextItem ==
    \/ ItemAddUser \/ AddItem \/ ItemCheckout \/ ReturnItem
    \/ ItemCheckoutCopy \/ ItemReturnCopy

SpecItem == Init /\ [][NextItem]_vars

(* the four collections: users, items, holds and loans *)
CollAddUser == \E u \in UserIds, role \in CircRoles : add_user(u, role)

CollAddItem == \E kind \in {"Book", "EBook"}, n \in CopyCounts : add_item("I1", kind, n)

CollCheckout ==
    \E l \in LoanIds, u \in UserIds, i \in ItemIds : checkout_item(l, u, i, 0)

CollPlaceHold ==
    \E h \in HoldIds, u \in UserIds, e \in Dates : place_hold(h, u, "I1", 0, e)

NextColl == CollAddUser \/ CollAddItem \/ CollCheckout \/ CollPlaceHold

SpecColl == Init /\ [][NextColl]_vars

(* a Loan, a LibraryItem and Loan.return_item and Loan.renew used          *)
(* directly, the way demo.py uses them: one loan of U1 on the item I1, an  *)
(* item of any variant                                                     *)
NewLoan == \E d \in Dates : new_loan("L1", "U1", "I1", d, None)

NewItem == \E kind \in Kinds : add_item("I1", kind, 1)

RenewUsers == ({"U1"} \X Roles) \cup {<<"U2", "Faculty">>}

(* renew is given every hold placed so far *)
LoanRenew ==
    \E l \in DOMAIN loans, p \in RenewUsers, t \in Dates,
       m \in 0..MaxRenewalsArg, a \in BOOLEAN :
        Loan_renew(l, p[1], p[2], t, 1..Len(holds), m, a)

LoanReturn ==
    \E l \in DOMAIN loans, d \in Dates, rate \in DailyRates : Loan_return(l, d, rate)

NextLoan == NewLoan \/ NewItem \/ ItemCheckoutCopy \/ LoanRenew \/ LoanReturn

SpecLoan == Init /\ [][NextLoan]_vars

(* Loan.renew against Hold objects: one loan of U1 on I1, open or already  *)
(* returned when it is built, and a hold placed by either user on either   *)
(* item, then fulfilled or cancelled                                       *)
RenewNewLoan ==
    \E d \in Dates, r \in {None} \cup Dates : new_loan("L1", "U1", "I1", d, r)

NewHold ==
    \E u \in UserIds, i \in ItemIds, e \in Dates : place_hold("H1", u, i, 0, e)

HoldFulfill == \E k \in 1..Len(holds) : Hold_fulfill(k)

HoldCancel == \E k \in 1..Len(holds) : Hold_cancel(k)

NextRenew == RenewNewLoan \/ NewHold \/ HoldFulfill \/ HoldCancel \/ LoanRenew

SpecRenew == Init /\ [][NextRenew]_vars

(* One hold of U1 on I1, built directly or placed through the coordinator, *)
(* and every method of Hold called on it                                   *)
ExtendDays == {0 - 1, 0, 1, 2}

HoldNew ==
    \E p \in Dates, e \in Dates, n \in BOOLEAN : new_hold("H1", "U1", "I1", p, e, n)

HoldPlace == \E e \in Dates : place_hold("H1", "U1", "I1", 0, e)

HoldNotify == \E k \in 1..Len(holds) : Hold_notify(k)

HoldExtend ==
    \E k \in 1..Len(holds), n \in ExtendDays, t \in Dates : Hold_extend(k, n, t)

HoldStatus == \E k \in 1..Len(holds), t \in Dates : Hold_status(k, t)

NextHold ==
    HoldNew \/ HoldPlace \/ HoldNotify \/ HoldFulfill \/ HoldCancel
        \/ HoldExtend \/ HoldStatus

SpecHold == Init /\ [][NextHold]_vars

(* Items of every variant in the catalogue, each asked for the due date of *)
(* a checkout by a user of every role                                      *)
DueAddItem ==
    \E i \in ItemIds, kind \in Kinds, n \in CopyCounts : add_item(i, kind, n)

DueCalc ==
    \E i \in DOMAIN items, d \in Dates, r \in Roles : Item_due_date(i, d, r)

NextDue == DueAddItem \/ DueCalc

SpecDue == Init /\ [][NextDue]_vars

(* Checkouts and renewals by the borrower on the first date, and returns on *)
(* the dates of Dates, on the day a DVD checked out on the first date is   *)
(* due and on the day after, at a quarter and at an eighth of a dollar a   *)
(* day                                                                     *)
ReturnDates ==
    Dates \cup {Item_calculate_due_date(LibraryItem("DVD", 1), 0, "Faculty") + k : k \in {0, 1}}

ReturnRates == {250, 125}

RetAddItem == \E kind \in {"Book", "DVD", "EBook"} : add_item("I1", kind, MaxCopies)

RetCheckout ==
    \E p \in {<<"L1", "U1">>, <<"L2", "U2">>, <<"L1", "U2">>} :
        checkout_item(p[1], p[2], "I1", 0)

RetRenew ==
    \E l \in DOMAIN loans :
        Loan_renew(l, loans[l].user_id, users[loans[l].user_id].role, 0, {},
                   MaxRenewalsArg, FALSE)

RetReturn ==
    \E l \in LoanIds, d \in ReturnDates, rate \in ReturnRates :
        LibrarySystem_return_item(l, d, rate)

NextReturn == AddUser \/ RetAddItem \/ RetCheckout \/ RetRenew \/ RetReturn

SpecReturn == Init /\ [][NextReturn]_vars

(* A loan with any due date asked for its fine on every day up to          *)
(* MaxFineDay, at a negative rate, at no rate, and at an eighth and a      *)
(* quarter of a dollar a day                                               *)
FineDates == 0..MaxFineDay

FineRates == {0 - 250, 0, 125, 250}

FineCalc ==
    \E l \in DOMAIN loans, d \in FineDates, rate \in FineRates :
        Loan_calculate_fine(l, d, rate)

NextFine == NewLoan \/ FineCalc

SpecFine == Init /\ [][NextFine]_vars

(* A student who borrows and returns a Book, late or not, and whose fines  *)
(* are added to and paid directly, in amounts of cents                     *)
FineAmounts == {0 - 25, 0, 25, 50}

BalAddItem == add_item("I1", "Book", MaxCopies)

BalCheckout == \E l \in LoanIds : checkout_item(l, "U1", "I1", 0)

BalAddFine == \E u \in DOMAIN users, a \in FineAmounts : User_add_fine(u, a)

BalPayFine == \E u \in DOMAIN users, a \in FineAmounts : User_pay_fine(u, a)

NextBalance ==
    ItemAddUser \/ BalAddItem \/ BalCheckout \/ ReturnItem \/ BalAddFine \/ BalPayFine

SpecBalance == Init /\ [][NextBalance]_vars

(* Holds of U1 placed on the first date through the coordinator under     *)
(* three hold ids, then fulfilled or cancelled, and the active holds of an *)
(* item asked for                                                          *)
StoreHoldIds == {"H1", "H2", "H3"}

StorePlace ==
    \E h \in StoreHoldIds, i \in ItemIds, e \in Dates : place_hold(h, "U1", i, 0, e)

StoreQuery ==
    \E i \in ItemIds, t \in Dates : LibrarySystem_get_active_holds_for_item(i, t)

NextStore == StorePlace \/ HoldFulfill \/ HoldCancel \/ StoreQuery

SpecStore == Init /\ [][NextStore]_vars

(* Holds placed through the coordinator with fresh, repeated and blank     *)
(* ids and with any two dates, then fulfilled or cancelled                 *)
PlaceAny ==
    \E h \in {"H1", "H2", " "}, u \in {"U1", ""}, i \in {"I1", " "},
       p \in Dates, e \in Dates :
        place_hold(h, u, i, p, e)

NextPlace == PlaceAny \/ HoldFulfill \/ HoldCancel

SpecPlace == Init /\ [][NextPlace]_vars

(* A student who borrows Books of two titles under arbitrary, possibly     *)
(* repeated, loan ids and returns them                                     *)
TripAddItem == \E i \in ItemIds : add_item(i, "Book", MaxCopies)

TripCheckout ==
    \E l \in LoanIds, i \in ItemIds : checkout_item(l, "U1", i, 0)

NextTrip == ItemAddUser \/ TripAddItem \/ TripCheckout \/ ReturnItem

SpecTrip == Init /\ [][NextTrip]_vars

(* A user of any role and an item of any variant, then loans made by the   *)
(* coordinator and renewed by their borrower, overdue or not, on dates     *)
(* that never go back: each call is dated on or after the call before it   *)
AdvAddUser == loans = <<>> /\ \E r \in Roles : add_user("U1", r)

AdvAddItem == loans = <<>> /\ \E kind \in Kinds : add_item("I1", kind, MaxCopies)

AdvCheckout ==
    \E l \in LoanIds, c \in Dates :
        c >= last.date /\ checkout_item(l, "U1", "I1", c)

AdvRenew ==
    \E l \in DOMAIN loans, t \in Dates, a \in BOOLEAN :
        t >= last.date /\ Borrower_renew(l, t, MaxRenewalsArg + 1, a)

NextAdvance == AdvAddUser \/ AdvAddItem \/ AdvCheckout \/ AdvRenew

SpecAdvance == Init /\ [][NextAdvance]_vars

(* Loans of U1 built with no renewals, each renewed under its own fixed    *)
(* maximum: none for L1, MaxRenewalsArg for L2; a hold of either user may  *)
(* stand against the renewal                                               *)
FixedMax(loan_id) == IF loan_id = "L1" THEN 0 ELSE MaxRenewalsArg

CountNewLoan == \E l \in LoanIds, d \in Dates : new_loan(l, "U1", "I1", d, None)

CountRenew ==
    \E l \in DOMAIN loans, p \in RenewUsers, t \in Dates, a \in BOOLEAN :
        Loan_renew(l, p[1], p[2], t, 1..Len(holds), FixedMax(l), a)

NextCount == CountNewLoan \/ NewHold \/ HoldCancel \/ CountRenew

SpecCount == Init /\ [][NextCount]_vars

(* A student's Book loan made by the coordinator, a hold of either user on *)
(* the Book, renewals asked for by either user with every hold passed in,  *)
(* and the loan returned on the first date                                 *)
FrameCheckout == \E l \in LoanIds : checkout_item(l, "U1", "I1", 0)

FramePlace == \E u \in UserIds, e \in Dates : place_hold("H1", u, "I1", 0, e)

FrameRenew ==
    \E l \in DOMAIN loans, u \in UserIds, t \in Dates, a \in BOOLEAN :
        Loan_renew(l, u, "Student", t, 1..Len(holds), MaxRenewalsArg, a)

FrameReturn ==
    \E l \in LoanIds, rate \in DailyRates : LibrarySystem_return_item(l, 0, rate)

NextFrame ==
    ItemAddUser \/ BalAddItem \/ FrameCheckout \/ FramePlace \/ FrameRenew
        \/ FrameReturn

SpecFrame == Init /\ [][NextFrame]_vars

(* ------------------------------- claims -------------------------------- *)
Physical(it) == it.kind # "EBook"

(* C1: a physical item's available copies stay within 0..total_copies in   *)
(* every state; checkout_copy at zero available copies fails with the      *)
(* capacity error and return_copy at available = total fails with the      *)
(* state error, and both failures leave the count unchanged.               *)
C1_InRange ==
    \A i \in DOMAIN items :
        Physical(items[i]) => (0 <= items[i].available /\ items[i].available <= items[i].total)

C1_Failures ==
    /\ (/\ last'.op = "checkout_copy"
        /\ Physical(items[last'.item])
        /\ items[last'.item].available = 0)
       => (last'.err = "RuntimeError" /\ items' = items)
    /\ (/\ last'.op = "return_copy"
        /\ Physical(items[last'.item])
        /\ items[last'.item].available = items[last'.item].total)
       => (last'.err = "RuntimeError" /\ items' = items)

C1_CopiesInRange == []C1_InRange /\ [][C1_Failures]_vars

C1_Witness ==
    /\ last.op = "checkout_copy"
    /\ last.err = "RuntimeError"
    /\ Physical(items[last.item])
    /\ items[last.item].available = 0
    /\ items[last.item].total > 0
    /\ \E l \in DOMAIN loans : Loan_is_active(loans[l])

(* C2: a checkout_item call that fails changes nothing: the items, the     *)
(* stored loans and the users are as before the call.                      *)
C2_FailedCheckoutAtomic ==
    [][(last'.op = "checkout_item" /\ last'.err # "")
         => UNCHANGED <<users, items, loans>>]_vars

(* C3: a return_item call that fails changes nothing: the loans (so an     *)
(* Active loan stays Active), the items and the users are as before.       *)
C3_FailedReturnAtomic ==
    [][(last'.op = "return_item" /\ last'.err # "")
         => UNCHANGED <<users, items, loans>>]_vars

(* C4: a loan whose return date is set never changes again; a later        *)
(* return_item on it fails with the state error and leaves the items       *)
(* alone, and a later renew on it returns None.                            *)
C4_Step ==
    \A l \in DOMAIN loans :
        ~Loan_is_active(loans[l]) =>
            /\ loans'[l] = loans[l]
            /\ (last'.op = "Loan.return_item" /\ last'.id = l)
               => (last'.err = "RuntimeError" /\ items' = items)
            /\ (last'.op = "renew" /\ last'.id = l) => last'.ret = None

C4_ClosedLoanTerminal == [][C4_Step]_vars

C4_Witness ==
    /\ last.op = "Loan.return_item"
    /\ last.err = "RuntimeError"
    /\ ~Loan_is_active(loans[last.id])
    /\ loans[last.id].returned_on # last.date
    /\ items[last.item].available < items[last.item].total

(* C5: an insert under an id that is already present fails and leaves the  *)
(* stored entry unchanged, for add_user, add_item and place_hold, and for  *)
(* checkout_item called with a loan id that is already stored.             *)
C5_Step ==
    /\ (last'.op = "add_user" /\ last'.user \in DOMAIN users)
       => (last'.err = "ValueError" /\ users' = users)
    /\ (last'.op = "add_item" /\ last'.item \in DOMAIN items)
       => (last'.err = "ValueError" /\ items' = items)
    /\ (last'.op = "place_hold" /\ \E k \in 1..Len(holds) : holds[k].key = last'.id)
       => (last'.err = "ValueError" /\ holds' = holds)
    /\ (last'.op = "checkout_item" /\ last'.id \in DOMAIN loans)
       => (last'.err # "" /\ loans' = loans)

C5_DuplicateIdRejected == [][C5_Step]_vars

(* C6: a loan id is in a user's active-loan list exactly when the          *)
(* coordinator stores under that id an Active loan borrowed by that user.  *)
C6_ActiveLoansConsistent ==
    \A u \in DOMAIN users : \A l \in LoanIds :
        InSeq(l, users[u].active_loan_ids)
            <=> (/\ l \in DOMAIN loans
                 /\ Loan_is_active(loans[l])
                 /\ loans[l].user_id = u)

(* the rejection conditions (a)-(e) of renew as the specification states   *)
(* them, for the call recorded in c on the loan l and the stored holds hh  *)
RejectA(l) == l.returned_on # None
RejectB(l, c) == l.user_id # c.user
RejectC(l, c) == l.renewals >= c.max
RejectD(l, c) == c.date > l.due /\ ~c.allow
RejectE(l, c, hh) ==
    \E k \in c.hs :
        /\ hh[k].hold.item_id = c.item
        /\ hh[k].hold.user_id # c.user
        /\ ~hh[k].hold.fulfilled
        /\ ~hh[k].hold.cancelled
        /\ hh[k].hold.expires_on >= c.date

Rejected(l, c, hh) ==
    RejectA(l) \/ RejectB(l, c) \/ RejectC(l, c) \/ RejectD(l, c) \/ RejectE(l, c, hh)

(* C7: renew returns a new due date exactly when none of the rejection     *)
(* conditions (a)-(e) holds; a fulfilled, cancelled or expired hold of     *)
(* another user does not block.                                            *)
C7_RenewIff ==
    [][last'.op = "renew"
         => ((last'.ret # None) <=> ~Rejected(loans[last'.id], last', holds))]_vars

(* C8: when the holds passed in contain an active hold of another user on  *)
(* the loan's item with expires_on >= today, renew returns None and        *)
(* changes nothing, whatever the renewal count, max_renewals,              *)
(* allow_overdue and the due date.                                         *)
C8_Step ==
    (/\ last'.op = "renew"
     /\ \E k \in last'.hs :
            /\ holds[k].hold.item_id = loans[last'.id].item_id
            /\ holds[k].hold.user_id # last'.user
            /\ Hold_is_active(holds[k].hold, last'.date)
            /\ holds[k].hold.expires_on >= last'.date)
    => (last'.ret = None /\ UNCHANGED <<users, items, loans, holds>>)

C8_HoldBlocksRenewal == [][C8_Step]_vars

C8_Witness ==
    /\ last.op = "renew"
    /\ last.ret = None
    /\ ~RejectA(loans[last.id])
    /\ ~RejectB(loans[last.id], last)
    /\ ~RejectC(loans[last.id], last)
    /\ ~RejectD(loans[last.id], last)
    /\ RejectE(loans[last.id], last, holds)
    /\ \E k \in last.hs : holds[k].hold.expires_on = last.date

(* C9: a successful renew sets the due date to today + 14 for a Student or *)
(* Public user and to today + 28 for any other role, whatever the due date *)
(* was, returns it, and raises the renewal count by exactly one.           *)
C9_Step ==
    (last'.op = "renew" /\ last'.ret # None) =>
        LET d == last'.date + (IF last'.role \in {"Student", "Public"} THEN 14 ELSE 28)
        IN  /\ last'.ret = d
            /\ loans'[last'.id].due = d
            /\ loans'[last'.id].renewals = loans[last'.id].renewals + 1

C9_RenewedDueDate == [][C9_Step]_vars

C9_Witness ==
    /\ last.op = "renew"
    /\ last.role = "Public"
    /\ "I1" \in DOMAIN items
    /\ items["I1"].kind = "EBook"
    /\ last.ret = last.date + 14
    /\ loans[last.id].due = last.ret
    /\ loans[last.id].renewals = 1
    /\ last.date > 0

(* C10: a renew that meets one of the rejection conditions (closed loan,   *)
(* wrong borrower, renewal count at the maximum, overdue without           *)
(* allow_overdue, conflicting hold) returns None, raises nothing and       *)
(* leaves the loan's due date, renewal count and returned_on unchanged.    *)
C10_Step ==
    (last'.op = "renew" /\ Rejected(loans[last'.id], last', holds))
    => (/\ last'.ret = None
        /\ last'.err = ""
        /\ loans'[last'.id] = loans[last'.id])

C10_RejectedRenewNoChange == [][C10_Step]_vars

C10_Witness ==
    /\ last.op = "renew"
    /\ last.ret = None
    /\ ~RejectA(loans[last.id])
    /\ RejectB(loans[last.id], last)
    /\ ~RejectC(loans[last.id], last)
    /\ ~RejectD(loans[last.id], last)
    /\ ~RejectE(loans[last.id], last, holds)

(* the stored hold a call named by its hold id *)
HoldOf(hs, id) == hs[CHOOSE k \in 1..Len(hs) : hs[k].key = id].hold

(* C11: under any sequence of notify, fulfill, cancel and extend calls a   *)
(* hold is never both fulfilled and cancelled, and each of the two flags,  *)
(* once true, stays true.                                                  *)
C11_NotBoth ==
    \A k \in 1..Len(holds) : ~(holds[k].hold.fulfilled /\ holds[k].hold.cancelled)

C11_Sticky ==
    \A k \in 1..Len(holds) :
        /\ holds[k].hold.fulfilled => holds'[k].hold.fulfilled
        /\ holds[k].hold.cancelled => holds'[k].hold.cancelled

C11_FlagsExclusiveSticky == []C11_NotBoth /\ [][C11_Sticky]_vars

C11_Witness ==
    /\ last.op = "cancel"
    /\ last.err = "RuntimeError"
    /\ HoldOf(holds, last.id).fulfilled
    /\ ~HoldOf(holds, last.id).cancelled

(* C12: notify raises the state error exactly when the hold is fulfilled   *)
(* or cancelled, fulfill exactly when it is cancelled, cancel exactly when *)
(* it is fulfilled; a failing call leaves notified, fulfilled, cancelled   *)
(* and expires_on unchanged; a successful cancel leaves the hold cancelled *)
(* and not fulfilled, and every later fulfill or notify on it fails.       *)
C12_Step ==
    last'.op \in {"notify", "fulfill", "cancel"} =>
        LET h == HoldOf(holds, last'.id)
            g == HoldOf(holds', last'.id)
            illegal == CASE last'.op = "notify" -> h.fulfilled \/ h.cancelled
                         [] last'.op = "fulfill" -> h.cancelled
                         [] last'.op = "cancel" -> h.fulfilled
        IN  /\ last'.err = (IF illegal THEN "RuntimeError" ELSE "")
            /\ last'.err # "" =>
                   /\ g.notified = h.notified
                   /\ g.fulfilled = h.fulfilled
                   /\ g.cancelled = h.cancelled
                   /\ g.expires_on = h.expires_on
            /\ (last'.op = "cancel" /\ last'.err = "") =>
                   (g.cancelled /\ ~g.fulfilled)
            /\ (h.cancelled /\ last'.op \in {"notify", "fulfill"}) =>
                   last'.err = "RuntimeError"

C12_HoldTransitions == [][C12_Step]_vars

C12_Witness ==
    /\ last.op = "notify"
    /\ last.err = "RuntimeError"
    /\ HoldOf(holds, last.id).cancelled
    /\ ~HoldOf(holds, last.id).fulfilled
    /\ ~HoldOf(holds, last.id).notified

(* C13: for a hold whose cancelled flag is true, is_expired(today) is      *)
(* false for every date today, dates after expires_on included.            *)
C13_CancelledNeverExpired ==
    (last.op = "status" /\ HoldOf(holds, last.id).cancelled) => ~last.expired

(* C14: for a hold neither fulfilled nor cancelled exactly one of          *)
(* is_active(today) and is_expired(today) is true, active iff today <=     *)
(* expires_on and expired iff today > expires_on; for a hold in any state  *)
(* the two are never both true.                                            *)
C14_ActiveXorExpired ==
    last.op = "status" =>
        LET h == HoldOf(holds, last.id)
        IN  /\ (~h.fulfilled /\ ~h.cancelled) =>
                   /\ last.active # last.expired
                   /\ last.active <=> (last.date <= h.expires_on)
                   /\ last.expired <=> (last.date > h.expires_on)
            /\ ~(last.active /\ last.expired)

C14_Witness ==
    /\ last.op = "status"
    /\ ~HoldOf(holds, last.id).fulfilled
    /\ ~HoldOf(holds, last.id).cancelled
    /\ last.date = HoldOf(holds, last.id).expires_on
    /\ last.date > HoldOf(holds, last.id).placed_on
    /\ last.active
    /\ ~last.expired

(* C16: extend(days, today) succeeds only when the hold is active at today *)
(* and days >= 1, and then expires_on grows by exactly days and the new    *)
(* expiry is returned; on a hold that is not active it raises the state    *)
(* error, also when days is invalid; on an active hold with days < 1 it    *)
(* raises the validation error; a failing extend leaves expires_on alone.  *)
C16_Step ==
    last'.op = "extend" =>
        LET h == HoldOf(holds, last'.id)
            g == HoldOf(holds', last'.id)
            active == ~h.fulfilled /\ ~h.cancelled /\ last'.date <= h.expires_on
        IN  /\ last'.err = "" => (active /\ last'.days >= 1)
            /\ last'.err = "" =>
                   /\ g.expires_on = h.expires_on + last'.days
                   /\ last'.ret = g.expires_on
            /\ ~active => last'.err = "RuntimeError"
            /\ (active /\ last'.days < 1) => last'.err = "ValueError"
            /\ last'.err # "" => g.expires_on = h.expires_on

C16_ExtendContract == [][C16_Step]_vars

C16_Witness ==
    /\ last.op = "extend"
    /\ last.err = ""
    /\ last.days = 2
    /\ last.ret = HoldOf(holds, last.id).expires_on
    /\ last.date = last.ret - 2

(* C17: over any sequence of operations on a hold expires_on never         *)
(* decreases, never changes once the hold is fulfilled or cancelled, and   *)
(* is at least placed_on in every reachable state.                         *)
C17_NotBeforePlaced ==
    \A k \in 1..Len(holds) : holds[k].hold.expires_on >= holds[k].hold.placed_on

C17_Step ==
    \A k \in 1..Len(holds) :
        /\ holds'[k].hold.expires_on >= holds[k].hold.expires_on
        /\ (holds[k].hold.fulfilled \/ holds[k].hold.cancelled) =>
               holds'[k].hold.expires_on = holds[k].hold.expires_on

C17_ExpiryMonotone == []C17_NotBeforePlaced /\ [][C17_Step]_vars

C17_Witness ==
    /\ last.op = "extend"
    /\ last.err = "RuntimeError"
    /\ last.days >= 1
    /\ HoldOf(holds, last.id).fulfilled
    /\ last.date <= HoldOf(holds, last.id).expires_on

(* C15: when checkout_item succeeds for user U and item I while the        *)
(* coordinator stores a hold of U on I that is active on the checkout      *)
(* date, that hold is fulfilled once the checkout has been made.           *)
C15_Step ==
    (last'.op = "checkout_item" /\ last'.err = "") =>
        \A k \in 1..Len(holds) :
            (/\ holds[k].hold.user_id = last'.user
             /\ holds[k].hold.item_id = last'.item
             /\ ~holds[k].hold.fulfilled
             /\ ~holds[k].hold.cancelled
             /\ last'.date <= holds[k].hold.expires_on)
            => holds'[k].hold.fulfilled

C15_CheckoutFulfilsHold == [][C15_Step]_vars

(* C18: for every checkout date and every role, a Book or generic item is  *)
(* due 14 days after checkout for Student and Public and 28 days after for *)
(* Faculty, Staff and Admin; a Journal 7 days after for Student and Public *)
(* and 14 days after for the others; a DVD 7 days after for every role; an *)
(* EBook on the checkout date itself.                                      *)
PolicyDays(kind, role) ==
    LET short == role \in {"Student", "Public"}
    IN  CASE kind \in {"Book", "Generic"} -> (IF short THEN 14 ELSE 28)
          [] kind = "Journal" -> (IF short THEN 7 ELSE 14)
          [] kind = "DVD" -> 7
          [] kind = "EBook" -> 0

C18_DueDateTable ==
    last.op = "calculate_due_date" =>
        last.ret = last.date + PolicyDays(items[last.item].kind, last.role)

C18_Witness ==
    /\ last.op = "calculate_due_date"
    /\ items[last.item].kind = "DVD"
    /\ last.role = "Admin"
    /\ last.date > 0
    /\ last.ret = last.date + 7

(* C19: a successful checkout_item(loan_id, user_id, item_id, date) takes   *)
(* exactly one copy from a physical item (none from an EBook), stores      *)
(* under loan_id an active loan with renewal count 0, borrower user_id,    *)
(* item item_id and the due date of the item variant's policy for the date *)
(* and the user's role, adds loan_id to the user's active loans, which     *)
(* grow by one, and returns that loan.                                     *)
C19_Step ==
    (last'.op = "checkout_item" /\ last'.err = "") =>
        LET it == items[last'.item]
            u == users[last'.user]
            ln == loans'[last'.id]
        IN  /\ items'[last'.item].available =
                   (IF Physical(it) THEN it.available - 1 ELSE it.available)
            /\ ln.returned_on = None
            /\ ln.renewals = 0
            /\ ln.user_id = last'.user
            /\ ln.item_id = last'.item
            /\ ln.due = last'.date + PolicyDays(it.kind, u.role)
            /\ InSeq(last'.id, users'[last'.user].active_loan_ids)
            /\ Len(users'[last'.user].active_loan_ids) = Len(u.active_loan_ids) + 1
            /\ last'.ret = ln.due

C19_CheckoutEffect == [][C19_Step]_vars

(* C20: a successful return_item(loan_id, return_date, daily_rate) sets    *)
(* the loan's returned_on to return_date, gives the loan's item exactly    *)
(* one copy back, removes loan_id from the borrower's active loans,        *)
(* returns the fine computed from the loan's current due date, and adds    *)
(* exactly that fine to the borrower's balance when it is positive and     *)
(* leaves the balance alone when it is zero.                               *)
C20_Step ==
    (last'.op = "return_item" /\ last'.err = "") =>
        LET l == loans[last'.id]
            late == last'.date - l.due
            fine == IF late <= 0 THEN 0 ELSE Round2(late * last'.rate)
        IN  /\ loans'[last'.id].returned_on = last'.date
            /\ items'[l.item_id].available = items[l.item_id].available + 1
            /\ ~InSeq(last'.id, users'[l.user_id].active_loan_ids)
            /\ last'.ret = fine
            /\ users'[l.user_id].total_fines = users[l.user_id].total_fines + fine

C20_ReturnEffect == [][C20_Step]_vars

C20_Witness ==
    /\ last.op = "return_item"
    /\ last.err = ""
    /\ loans[last.id].returned_on = last.date
    /\ loans[last.id].due = last.date
    /\ items[loans[last.id].item_id].kind = "DVD"
    /\ users[loans[last.id].user_id].role = "Faculty"
    /\ last.ret = 0
    /\ users[loans[last.id].user_id].total_fines = 0

(* C21: calculate_fine is 0 whenever return_date <= due and otherwise the   *)
(* daily rate times the whole days between due and return_date, rounded to *)
(* two decimals, with no cap and no grace period (25 cents a day, due on   *)
(* day 0, returned on day 19: 4.75); for a daily rate >= 0 the fine is     *)
(* non-decreasing in the return date.                                      *)
C21_Value ==
    last.op = "calculate_fine" =>
        LET late == last.date - loans[last.id].due
        IN  /\ late <= 0 => last.ret = 0
            /\ late > 0 => last.ret = Round2(late * last.rate)
            /\ (late > 0 /\ last.rate = 250) => last.ret = 25 * late

C21_FineFormula ==
    /\ C21_Value
    /\ (last.op = "calculate_fine" /\ last.rate >= 0) =>
           \A d \in FineDates :
               d <= last.date =>
                   calculate_fine(loans[last.id], d, last.rate) <= last.ret

C21_Witness ==
    /\ last.op = "calculate_fine"
    /\ last.rate = 250
    /\ loans[last.id].due = 0
    /\ last.date = 19
    /\ last.ret = 475

(* C21 as stated: the value as above, and the fine non-decreasing in the   *)
(* return date at every daily rate.                                        *)
C21_FineMonotone ==
    /\ C21_Value
    /\ last.op = "calculate_fine" =>
           \A d \in FineDates :
               d <= last.date =>
                   calculate_fine(loans[last.id], d, last.rate) <= last.ret

(* C22: under any sequence of add_fine, pay_fine and coordinator           *)
(* return_item calls a user's fine balance is >= 0 and decreases only      *)
(* through pay_fine; pay_fine(amount) with amount >= 0 sets the balance to *)
(* max(0, balance - amount) and returns it; add_fine or pay_fine with a    *)
(* negative amount raises the validation error and leaves the balance      *)
(* unchanged.                                                              *)
C22_NonNegative == \A u \in DOMAIN users : users[u].total_fines >= 0

C22_Step ==
    /\ \A u \in DOMAIN users :
           users'[u].total_fines < users[u].total_fines =>
               (last'.op = "pay_fine" /\ last'.user = u)
    /\ (last'.op = "pay_fine" /\ last'.amount >= 0) =>
           LET b == users[last'.user].total_fines
               rest == IF b - last'.amount > 0 THEN b - last'.amount ELSE 0
           IN  /\ last'.err = ""
               /\ users'[last'.user].total_fines = rest
               /\ last'.ret = rest
    /\ (last'.op \in {"add_fine", "pay_fine"} /\ last'.amount < 0) =>
           /\ last'.err = "ValueError"
           /\ users'[last'.user].total_fines = users[last'.user].total_fines

C22_FineBalance == []C22_NonNegative /\ [][C22_Step]_vars

C22_Witness ==
    /\ last.op = "pay_fine"
    /\ last.err = ""
    /\ last.amount = 50
    /\ last.ret = 0
    /\ users[last.user].total_fines = 0
    /\ \E l \in DOMAIN loans : loans[l].returned_on > loans[l].due

(* C23: get_active_holds_for_item(item_id, today) returns exactly the      *)
(* stored holds whose item id is item_id and that are active at today (not *)
(* fulfilled, not cancelled, today <= expires_on), each once, in the order *)
(* the holds were placed, and it modifies no hold.                         *)
C23_Result ==
    last.op = "get_active_holds_for_item" =>
        LET want == {k \in 1..Len(holds) :
                        /\ holds[k].hold.item_id = last.item
                        /\ ~holds[k].hold.fulfilled
                        /\ ~holds[k].hold.cancelled
                        /\ last.date <= holds[k].hold.expires_on}
            pos(key) == CHOOSE k \in 1..Len(holds) : holds[k].key = key
        IN  /\ {last.out[j] : j \in 1..Len(last.out)} = {holds[k].key : k \in want}
            /\ Len(last.out) = Cardinality(want)
            /\ \A j1, j2 \in 1..Len(last.out) :
                   j1 < j2 => pos(last.out[j1]) < pos(last.out[j2])

C23_Frame == last'.op = "get_active_holds_for_item" => holds' = holds

C23_ActiveHoldsQuery == []C23_Result /\ [][C23_Frame]_vars

C23_Witness ==
    /\ last.op = "get_active_holds_for_item"
    /\ Len(holds) = 3
    /\ \A k \in 1..3 : holds[k].hold.item_id = last.item
    /\ holds[2].hold.cancelled
    /\ last.out = <<holds[1].key, holds[3].key>>

(* C24: place_hold with a fresh hold id, non-blank ids and expires_on >=   *)
(* placed_on stores exactly one new hold, active (not fulfilled, not       *)
(* cancelled, not notified), and leaves every other stored hold unchanged; *)
(* place_hold with expires_on < placed_on or a blank hold, user or item id *)
(* raises the validation error and stores nothing.                         *)
C24_Step ==
    last'.op = "place_hold" =>
        LET c == last'
            fresh == \A k \in 1..Len(holds) : holds[k].key # c.id
            blank == Strip(c.id) = "" \/ Strip(c.user) = "" \/ Strip(c.item) = ""
        IN  /\ (fresh /\ ~blank /\ c.until >= c.date) =>
                   /\ c.err = ""
                   /\ Len(holds') = Len(holds) + 1
                   /\ \A k \in 1..Len(holds) : holds'[k] = holds[k]
                   /\ holds'[Len(holds')].key = c.id
                   /\ holds'[Len(holds')].hold =
                          [hold_id |-> c.id, user_id |-> c.user, item_id |-> c.item,
                           placed_on |-> c.date, expires_on |-> c.until,
                           notified |-> FALSE, fulfilled |-> FALSE,
                           cancelled |-> FALSE]
            /\ (blank \/ c.until < c.date) =>
                   /\ c.err = "ValueError"
                   /\ holds' = holds

C24_PlaceHold == [][C24_Step]_vars

C24_Witness ==
    /\ last.op = "place_hold"
    /\ last.err = ""
    /\ last.until = last.date
    /\ Len(holds) = 2
    /\ holds[2].key = last.id
    /\ holds[1].hold.fulfilled

(* C25: under any sequence of coordinator checkout_item and return_item    *)
(* calls, with arbitrary and possibly repeated loan ids, for every         *)
(* physical item total_copies - available_copies equals the number of      *)
(* active loans stored for that item.                                      *)
C25_CopyConservation ==
    \A i \in DOMAIN items :
        Physical(items[i]) =>
            items[i].total - items[i].available =
                Cardinality({l \in DOMAIN loans :
                                loans[l].item_id = i /\ loans[l].returned_on = None})

(* C26: every active loan created by a successful checkout_item can be     *)
(* returned: for every item variant, EBook included, return_item on its    *)
(* loan id with the item still in the catalogue succeeds, closes the loan  *)
(* and removes the loan id from the borrower's active loans.               *)
C26_Step ==
    (/\ last'.op = "return_item"
     /\ last'.id \in DOMAIN loans
     /\ loans[last'.id].returned_on = None
     /\ loans[last'.id].item_id \in DOMAIN items)
    => (/\ last'.err = ""
        /\ loans'[last'.id].returned_on = last'.date
        /\ ~InSeq(last'.id, users'[loans[last'.id].user_id].active_loan_ids))

C26_ActiveLoanReturnable == [][C26_Step]_vars

(* C29: for a physical item, a successful checkout_item followed by a      *)
(* successful return_item of that same loan restores the item's available  *)
(* copies and the user's active loans to what they were before the         *)
(* checkout, leaves the loan stored and closed, and raises the user's fine *)
(* balance by exactly the returned fine.                                   *)
C29_Step ==
    (/\ last.op = "checkout_item"
     /\ last.err = ""
     /\ Physical(items[last.item])
     /\ last'.op = "return_item"
     /\ last'.err = ""
     /\ last'.id = last.id)
    => (/\ items'[last.item].available = last.pre[1]
        /\ users'[last.user].active_loan_ids = last.pre[2]
        /\ last.id \in DOMAIN loans'
        /\ loans'[last.id].returned_on = last'.date
        /\ users'[last.user].total_fines = last.pre[3] + last'.ret)

C29_RoundTrip == [][C29_Step]_vars

(* C27: for a loan created by checkout_item at date c and renewed by its   *)
(* borrower at dates >= c that do not decrease from one operation to the   *)
(* next, every successful renew yields a due date >= the due date before   *)
(* the call, for every item variant and every role.                        *)
C27_Step ==
    (last'.op = "renew" /\ last'.ret # None) =>
        /\ loans'[last'.id].due = last'.ret
        /\ loans'[last'.id].due >= loans[last'.id].due

C27_RenewAdvances == [][C27_Step]_vars

C27_Witness ==
    /\ last.op = "renew"
    /\ last.ret = DateStep + 28
    /\ last.role = "Faculty"
    /\ items["I1"].kind = "EBook"
    /\ loans[last.id].renewals = 2

(* C28: a loan created with renewal count 0 and renewed any number of      *)
(* times with a fixed max_renewals = M >= 0 has a renewal count that never *)
(* decreases and never exceeds M; once M renewals have been made, the      *)
(* attempt at the (M+1)-th renewal and every later attempt is rejected.    *)
C28_Bounded == \A l \in DOMAIN loans : loans[l].renewals \in 0..FixedMax(l)

C28_Step ==
    /\ \A l \in DOMAIN loans : loans'[l].renewals >= loans[l].renewals
    /\ (last'.op = "renew" /\ loans[last'.id].renewals >= FixedMax(last'.id)) =>
           (last'.ret = None /\ loans' = loans)

C28_RenewalCount == []C28_Bounded /\ [][C28_Step]_vars

C28_Witness ==
    /\ last.op = "renew"
    /\ last.id = "L2"
    /\ last.user = "U1"
    /\ last.allow
    /\ holds = <<>>
    /\ last.ret = None
    /\ loans["L2"].renewals = MaxRenewalsArg
    /\ MaxRenewalsArg >= 1

(* C30: renew, whether it succeeds or is rejected, changes nothing except  *)
(* the loan's own due date and renewal count: the item's available and     *)
(* total copies, the user's active loans and fine balance, every hold      *)
(* passed in and the loan's returned_on, borrower id and item id are       *)
(* unchanged.                                                              *)
C30_Step ==
    last'.op = "renew" =>
        /\ items' = items
        /\ users' = users
        /\ holds' = holds
        /\ DOMAIN loans' = DOMAIN loans
        /\ \A l \in DOMAIN loans :
               IF l = last'.id
               THEN loans'[l] = [loans[l] EXCEPT !.due = loans'[l].due,
                                                 !.renewals = loans'[l].renewals]
               ELSE loans'[l] = loans[l]

C30_RenewFrame == [][C30_Step]_vars

C30_Witness ==
    /\ last.op = "renew"
    /\ last.ret # None
    /\ Len(holds) = 1
    /\ last.hs = {1}
    /\ ~holds[1].hold.notified
    /\ InSeq(last.id, users["U1"].active_loan_ids)
    /\ items["I1"].available = 0

====
